---- MODULE Spec2Model ----
(***************************************************************************)
(* A state-machine model of script.js (the NutriAI meal-photo analyzer):   *)
(* the PIN gate, the camera / file acquisition handlers, the asynchronous  *)
(* analyzeImage pipeline, extractJson and displayResults.                  *)
(*                                                                         *)
(* Every event-loop task of the script is one action: a DOM event handler  *)
(* run to its first await, or the continuation that runs when a promise    *)
(* or timer settles.  Handlers are written as operators over a record `s`  *)
(* of the session state so that they compose as the calls in the source    *)
(* do (takePhoto = resetToInitialView ; showView ; analyzeImage).          *)
(***************************************************************************)
EXTENDS Integers, Sequences, FiniteSets, TLC

VARIABLES
    API_KEY,         \* the build-time credential constant (line 23)
    CORRECT_PIN,     \* the build-time unlock code (line 24)
    enteredPin,      \* let enteredPin (line 46), a sequence of key characters
    lockHidden,      \* lockScreen.classList has 'hidden'
    appVisible,      \* appContainer.classList has 'visible'
    shake,           \* pinDisplay.classList has 'shake'
    dotsFilled,      \* number of pin dots carrying 'filled'
    pinTimers,       \* pending 500 ms wrong-PIN timers
    active,          \* the set of .view elements carrying 'active'
    lastShown,       \* history: the argument of the most recent showView call
    resultsVisible,  \* results-view carries 'visible'
    currentStream,   \* let currentStream (line 47); NoStream is null
    live,            \* the streams whose tracks have been started and not stopped
    srcObject,       \* cameraStream.srcObject
    imagePreviewSrc, \* imagePreview.src
    uploadValue,     \* uploadPhotoInput.value
    resultsContent,  \* resultsContent.innerHTML: <<>> or <<rendering>>
    alertShown,      \* the alert() of the task that just ran, "" if it had none
    cameraRequests,  \* getUserMedia calls made so far
    pendingCamera,   \* getUserMedia promises not yet settled
    pendingReads,    \* FileReader reads not yet ended
    nextImage,       \* the next captured image's number
    pc,              \* pc[img]: where the analyzeImage call for image img stands
    handled,         \* the response body the task that just ran took from
                     \* response.json(), NoBody if it took none
    visibleTimers    \* pending 50 ms timers of displayResults

vars == <<API_KEY, CORRECT_PIN, enteredPin, lockHidden, appVisible, shake,
          dotsFilled, pinTimers, active, lastShown, resultsVisible,
          currentStream, live, srcObject, imagePreviewSrc, uploadValue,
          resultsContent, alertShown, cameraRequests,
          pendingCamera, pendingReads, nextImage, pc, handled, visibleTimers>>

(***************************************************************************)
(* Bounds of the model.                                                    *)
(***************************************************************************)
\* captured images (takePhoto + file reads) over a run
MaxImages == 2
\* startCamera calls over a run
MaxCameraRequests == 2
\* 500 ms wrong-PIN timers pending at once
MaxPinTimers == 1

(***************************************************************************)
(* Configuration: the two build-time constants and their deployments.      *)
(***************************************************************************)
\* const API_KEY = "__NUTRI_AI_API_KEY__"
DeclaredApiKey == "__NUTRI_AI_API_KEY__"

\* the literal analyzeImage compares API_KEY with
GuardPlaceholder == "__API_KEY__"

\* the values the credential constant can hold in a deployed script.js
ApiKeys == {DeclaredApiKey, GuardPlaceholder, "ghp_deployed_secret"}

\* const CORRECT_PIN = "__NUTRI_AI_PIN__", character by character
DeclaredPin ==
    <<"_", "_", "N", "U", "T", "R", "I", "_", "A", "I", "_", "P", "I", "N", "_", "_">>

\* the values the unlock code can hold in a deployed script.js
Pins == {DeclaredPin, <<"1", "2", "1", "2">>}

\* data-key values of the keypad buttons; "" is a click between the buttons
Keys == {"1", "2", "backspace", ""}

PinLength == 4

(***************************************************************************)
(* Session state as a record, for the handlers to compose over.            *)
(***************************************************************************)
Views == {"initial-view", "camera-view", "loading-view", "results-view"}

NoStream == 0

Images == 1..MaxImages

\* the session state a task starts from: it has shown no alert yet
Cur ==
    [active |-> active, lastShown |-> lastShown, resultsVisible |-> resultsVisible,
     currentStream |-> currentStream, live |-> live, srcObject |-> srcObject,
     imagePreviewSrc |-> imagePreviewSrc, uploadValue |-> uploadValue,
     resultsContent |-> resultsContent, alertShown |-> "", pc |-> pc,
     visibleTimers |-> visibleTimers]

Commit(s) ==
    /\ active' = s.active
    /\ lastShown' = s.lastShown
    /\ resultsVisible' = s.resultsVisible
    /\ currentStream' = s.currentStream
    /\ live' = s.live
    /\ srcObject' = s.srcObject
    /\ imagePreviewSrc' = s.imagePreviewSrc
    /\ uploadValue' = s.uploadValue
    /\ resultsContent' = s.resultsContent
    /\ alertShown' = s.alertShown
    /\ pc' = s.pc
    /\ visibleTimers' = s.visibleTimers

\* alert(msg)
alert(s, msg) == [s EXCEPT !.alertShown = msg]

\* showView without line 50: the other views keep 'active'
showViewAddsOnly(s, viewId) ==
    [s EXCEPT !.active = @ \cup ({viewId} \cap Views),
              !.lastShown = viewId]

\* showView: remove 'active' from every view, add it to the named one
showView(s, viewId) ==
    [s EXCEPT !.active = (@ \ Views) \cup ({viewId} \cap Views),
              !.lastShown = viewId]

\* resetToInitialView without line 61: the file input keeps its value
resetKeepsFileInput(s) ==
    LET released ==
            IF s.currentStream /= NoStream
            THEN [s EXCEPT !.live = @ \ {s.currentStream},
                           !.currentStream = NoStream]
            ELSE s
        cleared ==
            [released EXCEPT !.srcObject = NoStream,
                             !.imagePreviewSrc = "",
                             !.resultsContent = <<>>,
                             !.resultsVisible = FALSE]
    IN  showView(cleared, "initial-view")

\* resetToInitialView
resetToInitialView(s) ==
    LET released ==
            IF s.currentStream /= NoStream
            THEN [s EXCEPT !.live = @ \ {s.currentStream},
                           !.currentStream = NoStream]
            ELSE s
        cleared ==
            [released EXCEPT !.srcObject = NoStream,
                             !.imagePreviewSrc = "",
                             !.uploadValue = "",
                             !.resultsContent = <<>>,
                             !.resultsVisible = FALSE]
    IN  showView(cleared, "initial-view")

(***************************************************************************)
(* Completion text.  A text is a sequence of lexical units; each unit      *)
(* stands for the characters written beside it.  OBJ is the serialization  *)
(* of the response's nutrition object: it begins with "{" and ends with    *)
(* "}" and may hold balanced braces in between.  The three-backtick fence  *)
(* is written ~~~ in the unit names.                                       *)
(***************************************************************************)
OPEN  == "~~~json"
FENCE == "~~~"
WS    == " "
LB    == "{"
RB    == "}"
OBJ   == "{members}"
WORD  == "Sorry"
NUM   == "7"
ZERO  == "0"

Units == {OPEN, FENCE, WS, LB, RB, OBJ, WORD, NUM, ZERO}

\* the units that begin with the three fence characters
ClosesFence(u) == u \in {FENCE, OPEN}

\* the units holding a "{" / a "}"
HasOpenBrace(u) == u \in {LB, OBJ}

HasCloseBrace(u) == u \in {RB, OBJ}

\* least / greatest element of a non-empty set of positions
Least(S) == CHOOSE x \in S : \A y \in S : x <= y

Greatest(S) == CHOOSE x \in S : \A y \in S : x >= y

NoMatch == [found |-> FALSE, g1 |-> <<>>, g2 |-> <<>>]

\* first alternative at position i:  ~~~json \s* ([\s\S]*?) \s* ~~~
\* groups are <<>> for undefined and <<string>> when they took part
FencedAt(text, i) ==
    IF text[i] /= OPEN THEN NoMatch
    ELSE
        LET n == Len(text)
            \* \s* is greedy: p is the first position after the blanks
            p == Least({q \in (i + 1)..(n + 1) : q = n + 1 \/ text[q] /= WS})
            closers == {k \in p..n : ClosesFence(text[k])}
        IN  IF closers = {} THEN NoMatch
            ELSE
                LET k == Least(closers)
                    \* the lazy group ends where only blanks are left before the fence
                    e == Least({q \in p..k : \A r \in q..(k - 1) : text[r] = WS})
                IN  [found |-> TRUE, g1 |-> <<SubSeq(text, p, e - 1)>>, g2 |-> <<>>]

\* second alternative at position i:  ({[\s\S]*})  -- greedy, to the last "}"
BracedAt(text, i) ==
    IF ~HasOpenBrace(text[i]) THEN NoMatch
    ELSE
        LET n == Len(text)
            from == IF text[i] = OBJ THEN i ELSE i + 1
            closers == {j \in from..n : HasCloseBrace(text[j])}
        IN  IF closers = {} THEN NoMatch
            ELSE [found |-> TRUE, g1 |-> <<>>,
                  g2 |-> <<SubSeq(text, i, Greatest(closers))>>]

\* text.match(/~~~json\s*([\s\S]*?)\s*~~~|({[\s\S]*})/): the leftmost position
\* at which either alternative matches, the first alternative tried first
Match(text) ==
    LET starts == {i \in 1..Len(text) :
                       FencedAt(text, i).found \/ BracedAt(text, i).found}
    IN  IF starts = {} THEN NoMatch
        ELSE LET i == Least(starts)
             IN  IF FencedAt(text, i).found THEN FencedAt(text, i)
                 ELSE BracedAt(text, i)

(***************************************************************************)
(* JSON values.  Optional things are sequences: <<>> absent, <<x>> present.*)
(* A scalar is a number in tenths (n = 75 is 7.5) or a string.             *)
(***************************************************************************)
Num(n) == [t |-> "num", n |-> n, s |-> ""]

Str(x) == [t |-> "str", n |-> 0, s |-> x]

None == <<>>

Some(x) == <<x>>

\* the object {} : every field absent
EmptyObject ==
    [items |-> None, nutrition_summary |-> None,
     confidence_score |-> None, health_tips |-> None]

Null == [ok |-> FALSE, kind |-> "null", n |-> 0, obj |-> None]

ObjectValue(d) == [ok |-> TRUE, kind |-> "object", n |-> 0, obj |-> Some(d)]

NumberValue(n) == [ok |-> TRUE, kind |-> "number", n |-> n, obj |-> None]

\* a text without its blanks (JSON.parse skips white space between tokens)
RECURSIVE Strip(_)
Strip(text) ==
    IF text = <<>> THEN <<>>
    ELSE IF Head(text) = WS THEN Strip(Tail(text))
    ELSE <<Head(text)>> \o Strip(Tail(text))

\* JSON.parse(jsonString), data being the object OBJ serializes; a
\* SyntaxError is reported as Null.  jsonString = <<>> is undefined.
JSONParse(jsonString, data) ==
    IF jsonString = None THEN Null
    ELSE
        LET toks == Strip(jsonString[1])
        IN  IF toks = <<OBJ>> /\ data /= None THEN ObjectValue(data[1])
            ELSE IF toks = <<LB, RB>> THEN ObjectValue(EmptyObject)
            ELSE IF toks = <<NUM>> THEN NumberValue(70)
            ELSE IF toks = <<ZERO>> THEN NumberValue(0)
            ELSE Null

\* JsonString without "|| match[2]": only a fenced block is a candidate
JsonStringFenceOnly(m) == m.g1

\* const jsonString = match[1] || match[2]
JsonString(m) ==
    IF m.g1 /= None /\ m.g1[1] /= <<>> THEN m.g1
    ELSE m.g2

\* extractJson
extractJson(text, data) ==
    LET m == Match(text)
    IN  IF ~m.found THEN Null
        ELSE JSONParse(JsonString(m), data)

\* if (jsonData): null, 0 are falsy
Truthy(v) == v.ok /\ (v.kind = "object" \/ (v.kind = "number" /\ v.n /= 0))

(***************************************************************************)
(* displayResults.                                                         *)
(***************************************************************************)
\* a scalar in a template literal: ${x}
Show(v) ==
    IF v.t = "str" THEN v.s
    ELSE IF v.n % 10 = 0 THEN ToString(v.n \div 10)
    ELSE ToString(v.n \div 10) \o "." \o ToString(v.n % 10)

\* JavaScript truthiness of an optional scalar: undefined, 0 and '' are falsy
TruthyField(x) ==
    /\ x /= None
    /\ IF x[1].t = "num" THEN x[1].n /= 0 ELSE x[1].s /= ""

\* ${x || fallback}
OrElse(x, fallback) == IF TruthyField(x) THEN Show(x[1]) ELSE fallback

\* ${x ?? fallback}
Coalesce(x, fallback) == IF x /= None THEN Show(x[1]) ELSE fallback

\* Math.round(x) as a template value: NaN for undefined and for text that
\* is not a number, else the nearest integer, halves rounded up
RoundShown(x) ==
    IF x = None \/ x[1].t /= "num" THEN "NaN"
    ELSE ToString((x[1].n + 5) \div 10)

\* ${Math.round(total_calories) || 'N/A'}: NaN and 0 are falsy
RoundOrNA(x) ==
    IF RoundShown(x) \in {"NaN", "0"} THEN "N/A" ELSE RoundShown(x)

\* (confidence_score || 'medium').toLowerCase()
ToLowerCase(str) ==
    CASE str = "High" -> "high"
      [] str = "Medium" -> "medium"
      [] str = "Low" -> "low"
      [] OTHER -> str

\* <li>${item.item} (~${Math.round(item.calories)} kcal)</li>
ItemLine(item) ==
    Coalesce(item.item, "undefined") \o " (~" \o RoundShown(item.calories) \o " kcal)"

\* items && items.length > 0 ? items.map(...) : placeholder
ItemLines(items) ==
    IF items /= None /\ Len(items[1]) > 0
    THEN [i \in 1..Len(items[1]) |-> ItemLine(items[1][i])]
    ELSE <<"No specific items identified.">>

\* the object displayResults destructures: a number has none of the fields
DataOf(v) == IF v.kind = "object" THEN v.obj[1] ELSE EmptyObject

\* the TypeErrors of displayResults: destructuring an undefined
\* nutrition_summary (line 210), toLowerCase of a number (line 211), reading
\* a property of an undefined macronutrients / micronutrients (223, 245)
DisplayThrows(data) ==
    \/ data.nutrition_summary = None
    \/ TruthyField(data.confidence_score) /\ data.confidence_score[1].t /= "str"
    \/ data.nutrition_summary[1].macronutrients = None
    \/ data.nutrition_summary[1].micronutrients = None

\* the template literal of lines 213-250, field by field
Html(data) ==
    LET ns == data.nutrition_summary[1]
        macro == ns.macronutrients[1]
        micro == ns.micronutrients[1]
    IN  [total_calories |-> RoundOrNA(ns.total_calories),
         confidenceClass |-> ToLowerCase(OrElse(data.confidence_score, "medium")),
         confidence |-> OrElse(data.confidence_score, "Medium") \o " Confidence",
         protein |-> OrElse(macro.protein_g, "0") \o "g",
         carbs |-> OrElse(macro.carbs_g, "0") \o "g",
         fat |-> OrElse(macro.fat_g, "0") \o "g",
         fiber |-> OrElse(macro.fiber_g, "0") \o "g",
         items |-> ItemLines(data.items),
         sugar |-> "Sugar: " \o Coalesce(micro.sugar_g, "N/A") \o "g",
         sodium |-> "Sodium: " \o Coalesce(micro.sodium_mg, "N/A") \o "mg",
         tip |-> OrElse(data.health_tips, "Enjoy your meal mindfully!")]

\* displayResults(data), called with a truthy value; threw tells the caller
\* whether a TypeError left it before anything was written
displayResults(s, v) ==
    IF DisplayThrows(DataOf(v))
    THEN [state |-> s, threw |-> TRUE]
    ELSE [state |-> [showView([s EXCEPT !.resultsContent = Some(Html(DataOf(v)))],
                              "results-view")
                        EXCEPT !.visibleTimers = @ + 1],
          threw |-> FALSE]

(***************************************************************************)
(* analyzeImage: the call up to fetch, and its two continuations.          *)
(***************************************************************************)
NoBody == [kind |-> "none", text |-> <<>>, data |-> None]

\* a body response.json() rejects
InvalidBody == [kind |-> "invalid", text |-> <<>>, data |-> None]

\* a JSON body without choices[0].message.content
NoChoicesBody == [kind |-> "nochoices", text |-> <<>>, data |-> None]

\* a body whose choices[0].message.content is text, OBJ serializing data
Completion(text, data) == [kind |-> "completion", text |-> text, data |-> data]

\* error.message of a rejected fetch, of line 175, of line 185, of a
\* rejected response.json() and of a TypeError
FetchRejected == "Failed to fetch"

ApiError == "API Error: 500 Internal Server Error"

ParseFailure == "Failed to parse JSON from AI response."

BodySyntaxError == "Unexpected token < in JSON at position 0"

TypeError == "Cannot read properties of undefined"

\* catch (error) { alert(`Analysis failed: ...`); resetToInitialView(); }
analyzeCatch(s, img, message) ==
    [resetToInitialView(alert(s, "Analysis failed: " \o message))
        EXCEPT !.pc[img] = "failed"]

ApiKeyAlert ==
    "API key is not configured. Please set it up in your deployment process."

\* analyzeImage(base64Image) up to the first await
analyzeImage(s, img) ==
    IF API_KEY = GuardPlaceholder
    THEN [resetToInitialView(alert(s, ApiKeyAlert)) EXCEPT !.pc[img] = "blocked"]
    ELSE [s EXCEPT !.pc[img] = "fetch"]

\* await fetch(...) settles: a rejection, or a response with a status
onFetchSettled(s, img, outcome) ==
    IF outcome = "rejected" THEN analyzeCatch(s, img, FetchRejected)
    ELSE IF outcome = "status500" THEN analyzeCatch(s, img, ApiError)
    ELSE [s EXCEPT !.pc[img] = "json"]

\* onJsonSettled without the else of lines 184-186: a null jsonData is
\* dropped silently
onJsonSettledNoElse(s, img, b) ==
    LET v == extractJson(b.text, b.data)
        r == displayResults(s, v)
    IN  IF b.kind = "invalid" THEN analyzeCatch(s, img, BodySyntaxError)
        ELSE IF b.kind = "nochoices" THEN analyzeCatch(s, img, TypeError)
        ELSE IF ~Truthy(v) THEN [s EXCEPT !.pc[img] = "failed"]
        ELSE IF r.threw THEN analyzeCatch(s, img, TypeError)
        ELSE [r.state EXCEPT !.pc[img] = "done"]

\* onJsonSettled with showView('results-view') moved out of displayResults to
\* after the if: a null jsonData ends on the results screen too
onJsonSettledShowsAnyway(s, img, b) ==
    LET v == extractJson(b.text, b.data)
        r == displayResults(s, v)
    IN  IF b.kind = "invalid" THEN analyzeCatch(s, img, BodySyntaxError)
        ELSE IF b.kind = "nochoices" THEN analyzeCatch(s, img, TypeError)
        ELSE IF ~Truthy(v) THEN [showView(s, "results-view") EXCEPT !.pc[img] = "done"]
        ELSE IF r.threw THEN analyzeCatch(s, img, TypeError)
        ELSE [r.state EXCEPT !.pc[img] = "done"]

\* await response.json() settles: extractJson, then displayResults or throw
onJsonSettled(s, img, b) ==
    LET v == extractJson(b.text, b.data)
        r == displayResults(s, v)
    IN  IF b.kind = "invalid" THEN analyzeCatch(s, img, BodySyntaxError)
        ELSE IF b.kind = "nochoices" THEN analyzeCatch(s, img, TypeError)
        ELSE IF ~Truthy(v) THEN analyzeCatch(s, img, ParseFailure)
        ELSE IF r.threw THEN analyzeCatch(s, img, TypeError)
        ELSE [r.state EXCEPT !.pc[img] = "done"]

\* pc values of a request that is sent and neither completed nor failed
InFlight == {"fetch", "json"}

(***************************************************************************)
(* Sample responses.                                                       *)
(***************************************************************************)
FullData ==
    [items |-> Some(<<[item |-> Some(Str("rice")), calories |-> Some(Num(2004))]>>),
     nutrition_summary |-> Some(
        [total_calories |-> Some(Num(5004)),
         macronutrients |-> Some([protein_g |-> Some(Num(0)), carbs_g |-> Some(Num(500)),
                                  fat_g |-> Some(Num(205)), fiber_g |-> None]),
         micronutrients |-> Some([sugar_g |-> Some(Num(50)), sodium_mg |-> Some(Num(0))])]),
     confidence_score |-> Some(Str("High")),
     health_tips |-> Some(Str("Drink water."))]

\* {"nutrition_summary": {"macronutrients": {}, "micronutrients": {}}}
BareData ==
    [EmptyObject EXCEPT !.nutrition_summary = Some(
        [total_calories |-> None,
         macronutrients |-> Some([protein_g |-> None, carbs_g |-> None,
                                  fat_g |-> None, fiber_g |-> None]),
         micronutrients |-> Some([sugar_g |-> None, sodium_mg |-> None])])]

\* {"nutrition_summary": {"total_calories": 120, "micronutrients": {"sugar_g": 0}}}
NoMacroData ==
    [EmptyObject EXCEPT !.nutrition_summary = Some(
        [total_calories |-> Some(Num(1200)),
         macronutrients |-> None,
         micronutrients |-> Some([sugar_g |-> Some(Num(0)), sodium_mg |-> None])])]

Bodies ==
    {InvalidBody, NoChoicesBody,
     Completion(<<OBJ>>, Some(FullData)),
     Completion(<<OPEN, WS, OBJ, WS, FENCE>>, Some(BareData)),
     Completion(<<WORD, WS, OBJ>>, Some(NoMacroData)),
     Completion(<<LB, RB>>, None),
     Completion(<<WORD>>, None),
     Completion(<<WORD, LB, WORD, RB>>, None),
     Completion(<<OPEN, FENCE>>, None),
     Completion(<<OPEN, ZERO, FENCE>>, None),
     Completion(<<OPEN, NUM, FENCE>>, None)}

(***************************************************************************)
(* The PIN gate.                                                           *)
(***************************************************************************)
pinVars == <<enteredPin, lockHidden, appVisible, shake, dotsFilled, pinTimers>>

configVars == <<API_KEY, CORRECT_PIN>>

\* lines 71-75: the effect of a key on enteredPin
pressKey(pin, key) ==
    IF key = "backspace"
    THEN (IF pin = <<>> THEN <<>> ELSE SubSeq(pin, 1, Len(pin) - 1))
    ELSE IF Len(pin) < PinLength THEN Append(pin, key)
    ELSE pin

\* checkPin testing enteredPin for truthiness instead of equality
checkPinAcceptsAny(pin) ==
    /\ lockHidden' = TRUE
    /\ appVisible' = TRUE
    /\ UNCHANGED <<shake, pinTimers>>

\* checkPin, for the pin just entered
checkPin(pin) ==
    IF pin = CORRECT_PIN
    THEN /\ lockHidden' = TRUE
         /\ appVisible' = TRUE
         /\ UNCHANGED <<shake, pinTimers>>
    ELSE /\ pinTimers < MaxPinTimers
         /\ shake' = TRUE
         /\ pinTimers' = pinTimers + 1
         /\ UNCHANGED <<lockHidden, appVisible>>

\* the keypad is on the lock screen, which is shown until it gets 'hidden'
KeypadShown == ~lockHidden

\* a control of a view can be used when the app is visible and the view active
CanUse(view) == appVisible /\ view \in active

\* the views that hold a .back-btn
BackBtnViews == {"camera-view", "results-view"}

appVars == <<active, lastShown, resultsVisible, currentStream, live, srcObject,
             imagePreviewSrc, uploadValue, resultsContent,
             cameraRequests, pendingCamera, pendingReads, nextImage, pc,
             visibleTimers>>

\* what a task that shows no alert and reads no response leaves behind
quiet == alertShown' = "" /\ handled' = NoBody

\* handleKeypadClick
handleKeypadClick(key) ==
    /\ KeypadShown
    /\ key /= ""
    /\ LET pin == pressKey(enteredPin, key)
       IN  /\ enteredPin' = pin
           /\ dotsFilled' = Len(pin)
           /\ IF Len(pin) = PinLength
              THEN checkPin(pin)
              ELSE UNCHANGED <<lockHidden, appVisible, shake, pinTimers>>
    /\ quiet
    /\ UNCHANGED <<configVars, appVars>>

\* the setTimeout callback of checkPin
pinTimerFires ==
    /\ pinTimers > 0
    /\ pinTimers' = pinTimers - 1
    /\ shake' = FALSE
    /\ enteredPin' = <<>>
    /\ dotsFilled' = 0
    /\ quiet
    /\ UNCHANGED <<lockHidden, appVisible, configVars, appVars>>

(***************************************************************************)
(* Image acquisition.                                                      *)
(***************************************************************************)
StreamIds == 1..MaxCameraRequests

\* the stream object a resolving getUserMedia hands out: one no variable holds
NewStream == Least(StreamIds \ (live \cup {currentStream, srcObject}))

Files == {"meal.jpg", "soup.png"}

\* startCamera up to await getUserMedia (click on use-camera-btn)
startCamera ==
    /\ CanUse("initial-view")
    /\ cameraRequests < MaxCameraRequests
    /\ cameraRequests' = cameraRequests + 1
    /\ pendingCamera' = pendingCamera + 1
    /\ quiet
    /\ UNCHANGED <<configVars, pinVars, active, lastShown, resultsVisible,
                   currentStream, live, srcObject, imagePreviewSrc, uploadValue,
                   resultsContent, pendingReads, nextImage, pc, visibleTimers>>

\* lines 107-109 with the stream getUserMedia resolved to, its tracks live
cameraGranted(s, stream) ==
    showView([s EXCEPT !.live = @ \cup {stream},
                       !.currentStream = stream,
                       !.srcObject = stream],
             "camera-view")

CameraAlert == "Could not access the camera. Please ensure permissions are granted."

\* lines 110-113
cameraDenied(s) == alert(s, CameraAlert)

\* getUserMedia resolves
startCameraGranted ==
    /\ pendingCamera > 0
    /\ pendingCamera' = pendingCamera - 1
    /\ Commit(cameraGranted(Cur, NewStream))
    /\ handled' = NoBody
    /\ UNCHANGED <<configVars, pinVars, cameraRequests, pendingReads, nextImage>>

\* getUserMedia rejects
startCameraDenied ==
    /\ pendingCamera > 0
    /\ pendingCamera' = pendingCamera - 1
    /\ Commit(cameraDenied(Cur))
    /\ handled' = NoBody
    /\ UNCHANGED <<configVars, pinVars, cameraRequests, pendingReads, nextImage>>

\* takePhoto (click on take-photo-btn)
takePhoto ==
    /\ CanUse("camera-view")
    /\ nextImage + pendingReads <= MaxImages
    /\ nextImage' = nextImage + 1
    /\ Commit(analyzeImage(showView(resetToInitialView(Cur), "loading-view"),
                           nextImage))
    /\ handled' = NoBody
    /\ UNCHANGED <<configVars, pinVars, cameraRequests, pendingCamera, pendingReads>>

\* handleFileUpload (change on upload-photo-input): the browser has set the
\* input's value; "" is a selection withdrawn, e.target.files[0] undefined
handleFileUpload(file) ==
    /\ CanUse("initial-view")
    /\ file /= uploadValue
    /\ uploadValue' = file
    /\ IF file = ""
       THEN UNCHANGED pendingReads
       ELSE /\ nextImage + pendingReads <= MaxImages
            /\ pendingReads' = pendingReads + 1
    /\ quiet
    /\ UNCHANGED <<configVars, pinVars, active, lastShown, resultsVisible,
                   currentStream, live, srcObject, imagePreviewSrc,
                   resultsContent, cameraRequests, pendingCamera, nextImage,
                   pc, visibleTimers>>

\* reader.onloadend
readerLoadEnd ==
    /\ pendingReads > 0
    /\ pendingReads' = pendingReads - 1
    /\ nextImage' = nextImage + 1
    /\ Commit(analyzeImage(showView(Cur, "loading-view"), nextImage))
    /\ handled' = NoBody
    /\ UNCHANGED <<configVars, pinVars, cameraRequests, pendingCamera>>

\* click on a .back-btn
backClick ==
    /\ appVisible
    /\ active \cap BackBtnViews /= {}
    /\ Commit(resetToInitialView(Cur))
    /\ handled' = NoBody
    /\ UNCHANGED <<configVars, pinVars, cameraRequests, pendingCamera,
                   pendingReads, nextImage>>

\* the fetch promise of image img settles
fetchSettled(img) ==
    /\ pc[img] = "fetch"
    /\ \E outcome \in {"rejected", "status500", "ok"} :
            Commit(onFetchSettled(Cur, img, outcome))
    /\ handled' = NoBody
    /\ UNCHANGED <<configVars, pinVars, cameraRequests, pendingCamera,
                   pendingReads, nextImage>>

\* the response.json() promise of image img settles, with one of bodies
jsonSettledWith(img, bodies) ==
    /\ pc[img] = "json"
    /\ \E b \in bodies :
         /\ Commit(onJsonSettled(Cur, img, b))
         /\ handled' = b
    /\ UNCHANGED <<configVars, pinVars, cameraRequests, pendingCamera,
                   pendingReads, nextImage>>

\* the response.json() promise of image img settles
jsonSettled(img) == jsonSettledWith(img, Bodies)

\* the setTimeout callback of displayResults
visibleTimerFires ==
    /\ visibleTimers > 0
    /\ visibleTimers' = visibleTimers - 1
    /\ resultsVisible' = TRUE
    /\ quiet
    /\ UNCHANGED <<configVars, pinVars, active, lastShown, currentStream, live,
                   srcObject, imagePreviewSrc, uploadValue, resultsContent,
                   cameraRequests, pendingCamera, pendingReads, nextImage, pc>>

(***************************************************************************)
(* The specifications.                                                     *)
(*                                                                         *)
(* The PIN gate and the analyzer share no variable: the keypad handlers    *)
(* read and write only enteredPin and the lock screen's classes, the       *)
(* analyzer's handlers none of them, and the analyzer's controls are       *)
(* covered by the lock screen until checkPin has accepted the PIN.  PinSpec *)
(* is the gate from page load; Spec is the analyzer from the moment the    *)
(* gate has opened.                                                        *)
(***************************************************************************)
\* the views the page's markup gives 'active' to
InitialActive == {"initial-view"}

\* the analyzer's variables as DOMContentLoaded leaves them
AppLoaded ==
    /\ active = InitialActive
    /\ lastShown = ""
    /\ resultsVisible = FALSE
    /\ currentStream = NoStream
    /\ live = {}
    /\ srcObject = NoStream
    /\ imagePreviewSrc = ""
    /\ uploadValue = ""
    /\ resultsContent = None
    /\ alertShown = ""
    /\ cameraRequests = 0
    /\ pendingCamera = 0
    /\ pendingReads = 0
    /\ nextImage = 1
    /\ pc = [img \in Images |-> "none"]
    /\ handled = NoBody
    /\ visibleTimers = 0

\* page load: the lock screen shown, nothing entered
PinInit ==
    /\ API_KEY \in ApiKeys
    /\ CORRECT_PIN \in Pins
    /\ enteredPin = <<>>
    /\ lockHidden = FALSE
    /\ appVisible = FALSE
    /\ shake = FALSE
    /\ dotsFilled = 0
    /\ pinTimers = 0
    /\ AppLoaded

\* the gate just opened: the deployed PIN entered and accepted
Init ==
    /\ API_KEY \in ApiKeys
    /\ CORRECT_PIN \in {pin \in Pins : Len(pin) = PinLength}
    /\ enteredPin = CORRECT_PIN
    /\ lockHidden = TRUE
    /\ appVisible = TRUE
    /\ shake = FALSE
    /\ dotsFilled = PinLength
    /\ pinTimers = 0
    /\ AppLoaded

KeypadClick == \E key \in Keys : handleKeypadClick(key)

FileChange == \E file \in Files \cup {""} : handleFileUpload(file)

FetchSettled == \E img \in Images : fetchSettled(img)

JsonSettled == \E img \in Images : jsonSettled(img)

PinNext ==
    \/ KeypadClick
    \/ pinTimerFires

Next ==
    \/ startCamera
    \/ startCameraGranted
    \/ startCameraDenied
    \/ takePhoto
    \/ FileChange
    \/ readerLoadEnd
    \/ backClick
    \/ FetchSettled
    \/ JsonSettled
    \/ visibleTimerFires

PinSpec == PinInit /\ [][PinNext]_vars

Spec == Init /\ [][Next]_vars

(***************************************************************************)
(* extractJson and displayResults over wide inputs.                        *)
(*                                                                         *)
(* Both are pure functions of the completion analyzeImage hands them, so   *)
(* they are exercised from the one state that precedes their call: a       *)
(* selected file has been read, its request sent and answered with a       *)
(* success status, and response.json() is pending.  ExtractSpec answers    *)
(* with every completion text up to MaxTextLen units, RenderSpec with      *)
(* every response object of DataSet.                                       *)
(***************************************************************************)
\* the longest completion text, in units
MaxTextLen == 4

\* the longest items array
MaxItems == 2

\* the first upload's request awaits response.json()
AwaitingBody ==
    /\ API_KEY = DeclaredApiKey
    /\ CORRECT_PIN \in {pin \in Pins : Len(pin) = PinLength}
    /\ enteredPin = CORRECT_PIN
    /\ lockHidden = TRUE
    /\ appVisible = TRUE
    /\ shake = FALSE
    /\ dotsFilled = PinLength
    /\ pinTimers = 0
    /\ active = {"loading-view"}
    /\ lastShown = "loading-view"
    /\ resultsVisible = FALSE
    /\ currentStream = NoStream
    /\ live = {}
    /\ srcObject = NoStream
    /\ imagePreviewSrc = ""
    /\ uploadValue = "meal.jpg"
    /\ resultsContent = None
    /\ alertShown = ""
    /\ cameraRequests = 0
    /\ pendingCamera = 0
    /\ pendingReads = 0
    /\ nextImage = 2
    /\ pc = [img \in Images |-> IF img = 1 THEN "json" ELSE "none"]
    /\ handled = NoBody
    /\ visibleTimers = 0

\* the completion texts of 1 .. MaxTextLen units
Texts == UNION {[1..n -> Units] : n \in 1..MaxTextLen}

TextBodies == {Completion(text, Some(FullData)) : text \in Texts}

ExtractNext == jsonSettledWith(1, TextBodies)

ExtractSpec == AwaitingBody /\ [][ExtractNext]_vars

\* an amount of a nutrient: absent, 0, 7.5
Amounts == {None, Some(Num(0)), Some(Num(75))}

Macros == [protein_g : Amounts, carbs_g : Amounts, fat_g : Amounts, fiber_g : Amounts]

Micros == [sugar_g : Amounts, sodium_mg : Amounts]

\* total_calories: absent, 0, 0.4, 500.4, and a text that is no number
Totals == {None, Some(Num(0)), Some(Num(4)), Some(Num(5004)), Some(Str("plenty"))}

Optional(S) == {None} \cup {Some(x) : x \in S}

Summaries ==
    [total_calories : Totals, macronutrients : Optional(Macros),
     micronutrients : Optional(Micros)]

\* {"item": "rice", "calories": 200.4} and {"item": "tea", "calories": 1.5}
Items ==
    {[item |-> Some(Str("rice")), calories |-> Some(Num(2004))],
     [item |-> Some(Str("tea")), calories |-> Some(Num(15))]}

ItemLists == UNION {[1..n -> Items] : n \in 0..MaxItems}

\* the response objects: every field, and every container, present or absent
DataSet ==
    [items : Optional(ItemLists),
     nutrition_summary : Optional(Summaries),
     confidence_score : {None, Some(Str("Low"))},
     health_tips : {None, Some(Str("Drink water."))}]

DataBodies == {Completion(<<OBJ>>, Some(data)) : data \in DataSet}

RenderNext == jsonSettledWith(1, DataBodies)

RenderSpec == AwaitingBody /\ [][RenderNext]_vars

(***************************************************************************)
(* Properties.                                                             *)
(***************************************************************************)
\* the session as resetToInitialView is to leave it
FullyReset ==
    /\ active = {"initial-view"}
    /\ currentStream = NoStream
    /\ imagePreviewSrc = ""
    /\ uploadValue = ""
    /\ resultsContent = None

\* the images whose request is sent and neither completed nor failed
InFlightImages == {img \in Images : pc[img] \in InFlight}

\* C1: while API_KEY holds the value it is declared with, no captured image
\* gets a network request: every analyzeImage call is blocked before fetch.
C1_PlaceholderKeySendsNothing ==
    API_KEY = DeclaredApiKey => \A img \in Images : pc[img] \in {"none", "blocked"}

\* C2: in every reachable state at most one analysis is in flight.
C2_AtMostOneInFlight == Cardinality(InFlightImages) <= 1

\* a task in which resetToInitialView runs: the back button, takePhoto, the
\* missing-key path and the catch of analyzeImage
ResetRuns ==
    \/ backClick
    \/ takePhoto
    \/ \E img \in Images : pc[img] /= pc'[img] /\ pc'[img] \in {"blocked", "failed"}

\* C3: whenever a reset path runs, currentStream becomes null and no camera
\* track that was started is still live afterwards.
C3_ResetLeavesNoLiveTrack ==
    [][ResetRuns => (currentStream' = NoStream /\ live' = {})]_vars

\* C4: startCamera never overwrites currentStream while it still refers to
\* a stream with live tracks.
C4_StreamReleasedBeforeReassigned ==
    [][startCameraGranted => currentStream \notin live]_vars

\* C5: exactly one view carries 'active', and once showView has been called
\* it is the view named in the most recent call.
C5_ViewsMutuallyExclusive ==
    /\ Cardinality(active \cap Views) = 1
    /\ lastShown /= "" => active = {lastShown}

\* C5 witness: results shown after the loading and initial views had been
C5_Witness ==
    /\ lastShown = "results-view"
    /\ active = {"results-view"}
    /\ \E img \in Images : pc[img] = "done"

\* C6: when getUserMedia rejects the user is notified, no analysis starts,
\* currentStream is unchanged and the initial screen is the active one.
C6_DeniedCameraEndsOnInitial ==
    [][startCameraDenied =>
         /\ alertShown' = CameraAlert
         /\ pc' = pc
         /\ currentStream' = currentStream
         /\ active' = {"initial-view"}]_vars

\* the task in which the fetch of an image rejects or answers a
\* non-success status: the only way from "fetch" to "failed"
TransportFails == \E img \in Images : pc[img] = "fetch" /\ pc'[img] = "failed"

TransportAlerts ==
    {"Analysis failed: " \o FetchRejected, "Analysis failed: " \o ApiError}

\* C7: a transport failure notifies the user and resets the session fully:
\* initial screen, no stream, preview, file input and results cleared.
C7_TransportFailureResets ==
    [][TransportFails => (alertShown' \in TransportAlerts /\ FullyReset')]_vars

\* C7 witness: an HTTP 500 has just been reported and the session is reset,
\* with a camera request granted earlier in the run
C7_Witness ==
    /\ alertShown = "Analysis failed: " \o ApiError
    /\ \E img \in Images : pc[img] = "failed"
    /\ cameraRequests > 0
    /\ FullyReset

\* the candidate extractJson hands to JSON.parse for a text
Candidate(text) == JsonString(Match(text))

\* a completion without a candidate, or whose candidate does not parse
Unextractable(b) ==
    /\ b.kind = "completion"
    /\ \/ ~Match(b.text).found
       \/ ~JSONParse(Candidate(b.text), b.data).ok

\* C8: a completion with no JSON candidate, or one that does not parse,
\* makes extractJson fail and ends as a transport failure does: an alert,
\* then the reset.  The alert is the one of line 185, so displayResults,
\* whose own failure alerts a TypeError, has not been called.
C8_ExtractionFailureResets ==
    Unextractable(handled) =>
        /\ extractJson(handled.text, handled.data) = Null
        /\ alertShown = "Analysis failed: " \o ParseFailure
        /\ FullyReset

\* C8 witness: "Sorry" has just been handled
C8_Witness ==
    /\ handled = Completion(<<WORD>>, None)
    /\ alertShown = "Analysis failed: " \o ParseFailure
    /\ FullyReset

\* the response just handled parsed to an object
ParsedObject ==
    /\ handled.kind = "completion"
    /\ extractJson(handled.text, handled.data).kind = "object"

HandledData == DataOf(extractJson(handled.text, handled.data))

\* C9: whatever fields a parsed response object lacks, displayResults
\* completes and the results screen is shown, not the error path.
C9_RendererToleratesAbsence ==
    ParsedObject =>
        /\ active = {"results-view"}
        /\ resultsContent /= None
        /\ alertShown = ""

\* a micronutrient of a parsed object: <<>> when the path to it is missing
Micronutrient(data, name) ==
    IF data.nutrition_summary = None THEN None
    ELSE IF data.nutrition_summary[1].micronutrients = None THEN None
    ELSE data.nutrition_summary[1].micronutrients[1][name]

\* C10: a parsed object missing sodium_mg (sugar_g) is rendered with the
\* literal N/A for it, and a value of 0 is rendered as 0.
C10_MissingMicronutrientIsNA ==
    ParsedObject =>
        /\ resultsContent /= None
        /\ resultsContent[1].sodium =
              "Sodium: " \o Coalesce(Micronutrient(HandledData, "sodium_mg"), "N/A") \o "mg"
        /\ resultsContent[1].sugar =
              "Sugar: " \o Coalesce(Micronutrient(HandledData, "sugar_g"), "N/A") \o "g"

\* a macronutrient of a parsed object: <<>> when the path to it is missing
Macronutrient(data, name) ==
    IF data.nutrition_summary = None THEN None
    ELSE IF data.nutrition_summary[1].macronutrients = None THEN None
    ELSE data.nutrition_summary[1].macronutrients[1][name]

\* the response just handled parsed to an object displayResults rendered
Rendered == ParsedObject /\ ~DisplayThrows(HandledData)

\* C11: each macronutrient of a parsed object is rendered as the value
\* given when present and as 0 when absent, so a literal 0 reads "0g".
C11_MacronutrientsDefaultToZero ==
    ParsedObject =>
        /\ resultsContent /= None
        /\ resultsContent[1].protein =
              Coalesce(Macronutrient(HandledData, "protein_g"), "0") \o "g"
        /\ resultsContent[1].carbs =
              Coalesce(Macronutrient(HandledData, "carbs_g"), "0") \o "g"
        /\ resultsContent[1].fat =
              Coalesce(Macronutrient(HandledData, "fat_g"), "0") \o "g"
        /\ resultsContent[1].fiber =
              Coalesce(Macronutrient(HandledData, "fiber_g"), "0") \o "g"

\* what the code does keep of the macronutrient rule: it holds of every
\* object that has nutrition_summary, macronutrients and micronutrients
RenderedMacronutrients ==
    Rendered =>
        /\ resultsContent /= None
        /\ resultsContent[1].protein =
              Coalesce(Macronutrient(HandledData, "protein_g"), "0") \o "g"
        /\ resultsContent[1].carbs =
              Coalesce(Macronutrient(HandledData, "carbs_g"), "0") \o "g"
        /\ resultsContent[1].fat =
              Coalesce(Macronutrient(HandledData, "fat_g"), "0") \o "g"
        /\ resultsContent[1].fiber =
              Coalesce(Macronutrient(HandledData, "fiber_g"), "0") \o "g"
        /\ (Macronutrient(HandledData, "protein_g") = Some(Num(0))
                => resultsContent[1].protein = "0g")

\* C12: total_calories is rendered as its rounded integer whenever it is a
\* number, 0 and numbers that round to 0 included, and as N/A exactly when
\* it is absent or not a number.  Stated of the outputs displayResults
\* wrote, so that it fails by the total alone.
C12_TotalCaloriesRoundedOrNA ==
    Rendered =>
        LET total == HandledData.nutrition_summary[1].total_calories
        IN  /\ resultsContent /= None
            /\ resultsContent[1].total_calories =
                  (IF total /= None /\ total[1].t = "num"
                   THEN ToString((total[1].n + 5) \div 10)
                   ELSE "N/A")

\* what the code renders of total_calories: N/A also for a total that
\* rounds to 0
RenderedTotalCalories ==
    Rendered =>
        LET total == HandledData.nutrition_summary[1].total_calories
        IN  /\ resultsContent /= None
            /\ resultsContent[1].total_calories =
                  (IF total /= None /\ total[1].t = "num" /\ total[1].n >= 5
                   THEN ToString((total[1].n + 5) \div 10)
                   ELSE "N/A")

\* "<name> (~<rounded calories> kcal)"
ItemEntry(item) ==
    Show(item.item[1]) \o " (~" \o ToString((item.calories[1].n + 5) \div 10)
        \o " kcal)"

\* the item list of the claim: an entry per element, else the placeholder
ItemEntries(items) ==
    IF items /= None /\ Len(items[1]) > 0
    THEN [i \in 1..Len(items[1]) |-> ItemEntry(items[1][i])]
    ELSE <<"No specific items identified.">>

\* C13: the rendered item list of a parsed object has one entry per element
\* of items, "<name> (~<rounded calories> kcal)", and the one placeholder
\* entry when items is absent or empty.
C13_ItemListOrPlaceholder ==
    ParsedObject =>
        /\ resultsContent /= None
        /\ resultsContent[1].items = ItemEntries(HandledData.items)

\* what the code does keep of the item rule: it holds of every object that
\* has nutrition_summary, macronutrients and micronutrients
RenderedItems ==
    Rendered =>
        /\ resultsContent /= None
        /\ resultsContent[1].items = ItemEntries(HandledData.items)
        /\ Len(resultsContent[1].items) =
              (IF HandledData.items = None \/ HandledData.items[1] = <<>>
               THEN 1 ELSE Len(HandledData.items[1]))

\* where the brace opened before position j at nesting depth closes; 0 if
\* it does not ({members} is balanced in itself)
RECURSIVE CloseOf(_, _, _)
CloseOf(text, j, depth) ==
    IF j > Len(text) THEN 0
    ELSE IF text[j] = LB THEN CloseOf(text, j + 1, depth + 1)
    ELSE IF text[j] = RB
         THEN (IF depth = 1 THEN j ELSE CloseOf(text, j + 1, depth - 1))
    ELSE CloseOf(text, j + 1, depth)

\* the end of the brace-delimited object that begins at position i; 0 if none
ObjectEnd(text, i) ==
    IF text[i] = OBJ THEN i
    ELSE IF text[i] = LB THEN CloseOf(text, i + 1, 1)
    ELSE 0

\* the candidate by the rule of the claim, blanks dropped: the content of
\* the first fenced json block if the text has one, and only else its first
\* brace-delimited object; <<>> if it has neither
RuleCandidate(text) ==
    LET n == Len(text)
        opens == {i \in 1..n : text[i] = OPEN
                                 /\ \E k \in (i + 1)..n : ClosesFence(text[k])}
        objects == {i \in 1..n : ObjectEnd(text, i) > 0}
    IN  IF opens /= {}
        THEN LET i == Least(opens)
                 k == Least({q \in (i + 1)..n : ClosesFence(text[q])})
             IN  Strip(SubSeq(text, i + 1, k - 1))
        ELSE IF objects /= {}
        THEN Strip(SubSeq(text, Least(objects), ObjectEnd(text, Least(objects))))
        ELSE <<>>

\* the candidate of the code, blanks dropped; <<>> if there is none
CodeCandidate(text) ==
    IF Candidate(text) = None THEN <<>> ELSE Strip(Candidate(text)[1])

\* C14: the candidate extractJson parses is the content of the fenced json
\* block when the text has one, whatever prose or braces surround it, and
\* only else the first brace-delimited object of the text.
C14_FencePreferredElseFirstObject ==
    handled.kind = "completion" =>
        CodeCandidate(handled.text) = RuleCandidate(handled.text)

\* JSON.stringify(v): the text, and the object its {members} serializes
Stringify(v) ==
    IF v.kind = "object"
    THEN (IF v.obj[1] = EmptyObject
          THEN [text |-> <<LB, RB>>, data |-> None]
          ELSE [text |-> <<OBJ>>, data |-> v.obj])
    ELSE IF v.n = 0 THEN [text |-> <<ZERO>>, data |-> None]
    ELSE [text |-> <<NUM>>, data |-> None]

\* extractJson(JSON.stringify(v))
Reextracted(v) == extractJson(Stringify(v).text, Stringify(v).data)

\* what extractJson returned for the completion just handled
Extracted == extractJson(handled.text, handled.data)

\* C15 as stated: whenever extractJson succeeds on a completion with a
\* value v, it succeeds on the re-serialization of v with an equal value.
C15_ExtractionIdempotent ==
    (handled.kind = "completion" /\ Extracted /= Null) =>
        Reextracted(Extracted) = Extracted

\* C15 amended: whenever extractJson yields an object v for a completion,
\* it yields an equal object for the re-serialization of v.
C15_ExtractionIdempotentOnObjects ==
    (handled.kind = "completion" /\ Extracted.kind = "object") =>
        Reextracted(Extracted) = Extracted

\* C15 witness: an object taken out of a fenced block behind prose, then
\* out of its own serialization, which has no fence
C15_Witness ==
    /\ handled = Completion(<<WORD, OPEN, OBJ, FENCE>>, Some(FullData))
    /\ Extracted = ObjectValue(FullData)
    /\ Stringify(Extracted).text = <<OBJ>>
    /\ Reextracted(Extracted) = ObjectValue(FullData)

\* a step that shows the results screen: it becomes the active one, or is
\* the active one and gets new content
EntersResults ==
    /\ "results-view" \in active'
    /\ "results-view" \notin active \/ resultsContent' /= resultsContent

\* the order in which a captured image passes through analyzeImage
PipelineOrder ==
    {<<"none", "blocked">>, <<"none", "fetch">>, <<"fetch", "json">>,
     <<"fetch", "failed">>, <<"json", "done">>, <<"json", "failed">>}

\* C16: the results screen is shown only by the step that ends a complete
\* run for one image: its request was sent (pc "fetch"), answered with a
\* success status (pc "json"), and in the step itself extractJson succeeded
\* on the completion; pc moves only forward through these positions.
C16_ResultsOnlyAfterPipeline ==
    [][/\ EntersResults =>
            \E img \in Images :
                /\ pc[img] = "json"
                /\ pc'[img] = "done"
                /\ handled'.kind = "completion"
                /\ Truthy(extractJson(handled'.text, handled'.data))
       /\ \A img \in Images :
            pc'[img] /= pc[img] => <<pc[img], pc'[img]>> \in PipelineOrder]_vars

\* C16 witness: a run that failed, then a complete run that ends on results
C16_Witness ==
    /\ active = {"results-view"}
    /\ resultsContent /= None
    /\ pc[1] = "failed"
    /\ pc[2] = "done"
    /\ ParsedObject

\* a step in which the request of image img completes or fails
Completes(img) == pc[img] \in InFlight /\ pc'[img] \in {"done", "failed"}

\* C17: once the loading screen is no longer the active one, the completion
\* of a request, success or failure, leaves the active screen and
\* currentStream as they are.
C17_LateCompletionHasNoEffect ==
    [][((\E img \in Images : Completes(img)) /\ "loading-view" \notin active) =>
            (active' = active /\ currentStream' = currentStream)]_vars

\* C18: from resetToInitialView to the next rendering the results content
\* is empty, and while it is empty the results view is neither active nor
\* visible, also when displayResults' timer is still pending at the reset.
C18_ResultNotRetained ==
    resultsContent = None =>
        /\ "results-view" \notin active
        /\ ~resultsVisible

\* C19: while the initial, loading or results screen is the active one,
\* currentStream is null and no camera track is live.
C19_StreamOnlyOnCameraScreen ==
    active \cap {"initial-view", "loading-view", "results-view"} /= {} =>
        /\ currentStream = NoStream
        /\ live = {}

\* C20: enteredPin never exceeds 4 characters, and the lock screen gets
\* hidden / the app container visible only in a step that leaves enteredPin
\* with 4 characters, equal to CORRECT_PIN.
C20_UnlockOnlyOnExactMatch ==
    [][/\ Len(enteredPin') <= PinLength
       /\ (lockHidden' /= lockHidden \/ appVisible' /= appVisible) =>
            /\ lockHidden' /\ appVisible'
            /\ Len(enteredPin') = PinLength
            /\ enteredPin' = CORRECT_PIN]_vars

\* C20 witness: unlocked by the exact PIN while the clear timer of an
\* earlier wrong entry is still pending
C20_Witness ==
    /\ lockHidden /\ appVisible
    /\ pinTimers > 0
    /\ Len(enteredPin) = PinLength
    /\ enteredPin = CORRECT_PIN

====
